---- MODULE Spec2Model ----
(***************************************************************************)
(* Task lifecycle engine of the Personal AI Employee repository: the task  *)
(* files kept in one folder per lifecycle state, the RalphLoop retry       *)
(* governor, the task_processor mover, SelfCorrectionMode, the operator    *)
(* script update_task_status.py, the human approver and the approval       *)
(* requests written by create_approval.py.                                 *)
(*                                                                         *)
(* Numbers: confidence_score and risk_factor are floats in [0,1] in the    *)
(* source; here they are integer hundredths (0.5 is 50).  A metadata field *)
(* that the source reads with metadata.get(key, default) and that a file   *)
(* does not carry is held as that default.  Time is counted in hours.      *)
(***************************************************************************)
EXTENDS Integers, Sequences, FiniteSets, TLC

\* ------------------------------------------------------------------ bounds
NumTasks == 1
MaxCopies == 1
MaxRetryLog == 11
MaxClock == 26
\* Decision Ledger: the days followed and the entries written in all.
MaxDays == 2
MaxLedger == 3
\* Departments: the tasks a department processes in all and the entries of
\* the autonomy adjustment log.
MaxDeptTasks == 2
MaxAdjustments == 2
\* What TrustScoreSystem finds: the files of a folder or the tasks of the
\* retry logs, and the entries of the retry logs.
MaxObserved == 2
MaxAttempts == 6
\* The restarts of one component that are followed.
MaxStarts == 7
\* A watcher: the check cycles that fail in a row, the items one cycle
\* finds and the action files followed in Needs_Action.
MaxErrors == 12
MaxItems == 2
MaxActionFiles == 4
\* The Ralph Wiggum sessions started.
MaxSessions == 2
\* The versions of the content of a log and the integrity checks run.
MaxVersions == 3
MaxChecks == 2
MaxFiles == 2
MaxWatcherRuns == 2
\* The calls of write_action_file one watcher process makes.
MaxCalls == 2

\* ------------------------------------------------------- program constants
max_retries == 10
failure_threshold == 3
ApprovalTTL == 24

INCOMING == "01_Incoming_Tasks"
IN_PROGRESS == "02_In_Progress_Tasks"
COMPLETED == "03_Completed_Tasks"
APPROVAL == "04_Approval_Workflows"
FAILED == "05_Failed_Tasks"
Buckets == {INCOMING, IN_PROGRESS, COMPLETED, APPROVAL, FAILED}

\* File names.  1..NumTasks are the names the adapters generate (unique ids);
\* n + NumTasks is the name move_task_to_folder builds for n by inserting a
\* timestamp when the destination already holds a file called n.
Tasks == 1..NumTasks
AllNames == 1..(2 * NumTasks)
Stamp(n) == IF n <= NumTasks THEN n + NumTasks ELSE n
\* The task a file name belongs to.
Base(n) == IF n <= NumTasks THEN n ELSE n - NumTasks
NoTask == 0

Types == {"file_arrival", "email", "generic"}
Priorities == {"low", "high"}
Confidences == {50, 90}
\* avg_confidence of a success pattern (hundredths) and avg_retry_count of a
\* failure pattern, as the Memory files may hold them.
PatternConfidences == {65}
PatternRetryCounts == {6}
NoPattern == -1
NoField == "none"
NoFile == [exists |-> FALSE]

\* A task file whose frontmatter parses: frontmatter is TRUE and the other
\* fields hold the metadata.
TaskRecords ==
    [exists : {TRUE}, frontmatter : {TRUE}, status : {"pending_review"}, type : Types,
     priority : Priorities, approval : BOOLEAN, approved : {FALSE},
     confidence_score : Confidences, risk_factor : {0}, retry_count : {0},
     requires_manual_review : {FALSE}, original_status : {NoField, "completed"}]

\* A task file whose header cannot be parsed: parse_yaml_frontmatter yields
\* {}, so every reader sees the defaults of its .get calls (held here in the
\* fields; the status default differs from reader to reader and is left to
\* them) and every update_task_metadata / update_task_status returns False
\* without writing.
Unparsed ==
    [exists |-> TRUE, frontmatter |-> FALSE, status |-> NoField, type |-> "generic",
     priority |-> "normal", approval |-> FALSE, approved |-> FALSE,
     confidence_score |-> 50, risk_factor |-> 0, retry_count |-> 0,
     requires_manual_review |-> FALSE, original_status |-> NoField]

VARIABLES fs, retryLog, successPatterns, failurePatterns, ralph, tp,
          humanApproved, pending, now, ledger

\* The Decision Ledger files, one per day, and the processes that write them.
VARIABLES ledgerFile, date, writer

ledgerVars == <<ledgerFile, date, writer>>

\* The task lifecycle engine.
lifecycle == <<fs, retryLog, successPatterns, failurePatterns, ralph, tp,
               humanApproved, pending, now, ledger>>

\* The department memory files, the DepartmentAI and AutonomyLevelManager
\* processes, and the autonomy adjustment log.
VARIABLES memory, dept, alm, autonomyLog, tss

trustVars == <<memory, dept, alm, autonomyLog, tss>>

\* The supervisor (autonomous_system.py, enhanced_orchestrator.py): its
\* running flag and its table of components.
VARIABLES running, components, sup

supVars == <<running, components, sup>>

\* A watcher in BaseWatcher.run, the last run of create_approval.py, and
\* .claude/ralph_state.json of the Stop hook.
VARIABLES watcher, lastRun, hook

\* The logs that ImmutableAuditTrail locks, its hash_store.json and the
\* outcome of its last integrity check.
VARIABLES logs, hashStore, audit

auditVars == <<logs, hashStore, audit>>

\* Memory/safe_mode_config.json and CompanyScaleOrchestrator.
VARIABLES safeMode, company

companyVars == <<safeMode, company>>

\* file_watcher.py: the Inbox folder, the task records written for its
\* files, the archive and the processed_files set of the running watcher.
VARIABLES fw

fwVars == <<fw>>

\* The Needs_Action folder and the watcher processes inside
\* BaseWatcher.write_action_file.
VARIABLES needs_action, writers

actionVars == <<needs_action, writers>>

\* What the steps of the task lifecycle engine never touch.
others == <<ledgerVars, trustVars, supVars, watcher, lastRun, hook, auditVars, companyVars, fwVars, actionVars>>

\* What the writers of the ledger, the trust and autonomy programs, the
\* supervisor, a watcher and the Stop hook never touch.
notLedger == <<lifecycle, trustVars, supVars, watcher, lastRun, hook, auditVars, companyVars, fwVars, actionVars>>
notTrust == <<lifecycle, ledgerVars, supVars, watcher, lastRun, hook, auditVars, companyVars, fwVars, actionVars>>
notSup == <<lifecycle, ledgerVars, trustVars, watcher, lastRun, hook, auditVars, companyVars, fwVars, actionVars>>
notWatcher == <<lifecycle, ledgerVars, trustVars, supVars, lastRun, hook, auditVars, companyVars, fwVars, actionVars>>
notHook == <<lifecycle, ledgerVars, trustVars, supVars, watcher, lastRun, auditVars, companyVars, fwVars, actionVars>>
notAudit == <<lifecycle, ledgerVars, trustVars, supVars, watcher, lastRun, hook, companyVars, fwVars, actionVars>>
notCompany == <<lifecycle, ledgerVars, trustVars, supVars, watcher, lastRun, hook, auditVars, fwVars, actionVars>>
notFw == <<lifecycle, ledgerVars, trustVars, supVars, watcher, lastRun, hook, auditVars, companyVars, actionVars>>
notAction == <<lifecycle, ledgerVars, trustVars, supVars, watcher, lastRun, hook, auditVars, companyVars, fwVars>>

vars == <<fs, retryLog, successPatterns, failurePatterns, ralph, tp,
          humanApproved, pending, now, ledger, others>>

\* ---------------------------------------------------------- file system
Exists(F, b, n) == F[b][n] # NoFile

\* folder.glob('*.md')
Glob(F, b) == {n \in AllNames : Exists(F, b, n)}

\* RalphLoop.move_task_to_folder / task_processor.move_task_to_folder: a
\* rename; a missing source raises inside the try block and nothing moves.
MoveFile(F, b, n, dest) ==
    IF ~Exists(F, b, n) THEN F
    ELSE LET dn == IF Exists(F, dest, n) THEN Stamp(n) ELSE n
         IN [F EXCEPT ![b][n] = NoFile, ![dest][dn] = F[b][n]]

\* update_task_metadata as one read-modify-write (used inside process_task).
\* It writes nothing when the file is gone or has no frontmatter ("if yaml_data:").
UpdateFile(F, b, n, rec) ==
    IF Exists(F, b, n) /\ F[b][n].frontmatter THEN [F EXCEPT ![b][n] = rec] ELSE F

Min(a, b) == IF a < b THEN a ELSE b

\* The number of task files in the vault.
NFiles(F) == Cardinality({p \in Buckets \X AllNames : Exists(F, p[1], p[2])})

\* A write to a path whose file has been moved away creates the file again,
\* as a copy; the model follows at most MaxCopies such copies.
MayWrite(F, b, n) == Exists(F, b, n) \/ NFiles(F) < NumTasks + MaxCopies

\* ------------------------------------------------------------ RalphLoop
\* RalphLoop.analyze_retry_history: the entries of the retry logs that name
\* the file.
analyze_retry_history(n) == retryLog[n]

\* RalphLoop.apply_intelligence_to_task: the metadata after its update (the
\* update of a file without frontmatter fails, and its type reads 'unknown',
\* for which there is no pattern).
apply_intelligence_to_task(m, n) ==
    IF ~m.frontmatter THEN m ELSE
    [m EXCEPT
       !.confidence_score =
           IF successPatterns[m.type] # NoPattern THEN successPatterns[m.type] ELSE @,
       !.risk_factor =
           IF failurePatterns[m.type] # NoPattern
           THEN Min(100, failurePatterns[m.type] * 10) ELSE @,
       !.retry_count = analyze_retry_history(n)]

\* process_task, "if requires_approval:"
RequiresApprovalSkipped(m) == FALSE
RequiresApproval(m) == m.approval

\* process_task, "if retry_count >= self.max_retries:"
RetriesExhausted(m) == m.retry_count >= max_retries

\* The business rules with every completion threshold moved up to 0.9.
BusinessRulesHighBar(m) ==
    IF m.confidence_score > 90 THEN "completed" ELSE "in_progress"

\* The business rules with a result of their own for the low confidence.
BusinessRulesOnHold(m) ==
    IF m.type = "file_arrival"
    THEN (IF m.confidence_score > 70 THEN "completed" ELSE "in_progress")
    ELSE IF m.type = "email"
    THEN (IF m.priority \in {"high", "critical"}
          THEN (IF m.risk_factor > 50 THEN "on_hold" ELSE "in_progress")
          ELSE (IF m.confidence_score > 60 THEN "completed" ELSE "in_progress"))
    ELSE (IF m.confidence_score > 80 THEN "completed"
          ELSE IF m.confidence_score > 50 THEN "in_progress"
          ELSE "on_hold")

\* The business rules with manual review kept for risky emails only.
BusinessRulesRiskOnly(m) ==
    IF m.type = "file_arrival"
    THEN (IF m.confidence_score > 70 THEN "completed" ELSE "in_progress")
    ELSE IF m.type = "email"
    THEN (IF m.priority \in {"high", "critical"}
          THEN (IF m.risk_factor > 50 THEN "pending_review" ELSE "in_progress")
          ELSE (IF m.confidence_score > 60 THEN "completed" ELSE "in_progress"))
    ELSE (IF m.confidence_score > 80 THEN "completed" ELSE "in_progress")

\* process_task, the business rules on type, confidence, priority and risk.
BusinessRules(m) ==
    IF m.type = "file_arrival"
    THEN (IF m.confidence_score > 70 THEN "completed" ELSE "in_progress")
    ELSE IF m.type = "email"
    THEN (IF m.priority \in {"high", "critical"}
          THEN (IF m.risk_factor > 50 THEN "pending_review" ELSE "in_progress")
          ELSE (IF m.confidence_score > 60 THEN "completed" ELSE "in_progress"))
    ELSE (IF m.confidence_score > 80 THEN "completed"
          ELSE IF m.confidence_score > 50 THEN "in_progress"
          ELSE "pending_review")

\* RalphLoop.process_task on the file n of bucket b: the file system it
\* leaves and the status it returns.  A file that is gone reads as empty
\* metadata: no approval, retry_count 0, type generic, confidence 0.5, and
\* every update of it fails.
process_task(F, b, n) ==
    IF ~Exists(F, b, n) THEN [fs |-> F, ret |-> "pending_review"]
    ELSE LET m == apply_intelligence_to_task(F[b][n], n)
             F1 == UpdateFile(F, b, n, m)
         IN IF RequiresApproval(m)
            THEN [fs |-> MoveFile(F1, b, n, APPROVAL), ret |-> "awaiting_approval"]
            ELSE IF RetriesExhausted(m)
            THEN [fs |-> MoveFile(F1, b, n, FAILED), ret |-> "failed"]
            ELSE IF BusinessRules(m) = "pending_review"
            THEN [fs |-> UpdateFile(F1, b, n, [m EXCEPT !.requires_manual_review = TRUE]),
                  ret |-> "pending_review"]
            ELSE [fs |-> F1, ret |-> BusinessRules(m)]

RalphIdle == [phase |-> INCOMING, queue |-> {}, pc |-> "pick", task |-> NoTask,
              orig |-> NoField, wb |-> INCOMING, wst |-> "", snap |-> NoFile,
              started |-> 0]

\* The order in which run_autonomous_cycle visits the buckets.
RalphNextPhase(ph) ==
    IF ph = INCOMING THEN IN_PROGRESS ELSE IF ph = IN_PROGRESS THEN APPROVAL ELSE INCOMING

\* run_autonomous_cycle, the three "list(<bucket>.glob('*.md'))" lines: the
\* loop over one bucket is over, the next bucket is listed.  Leaving the
\* approval bucket ends the cycle and starts the next one.
RalphList ==
    /\ ralph.pc = "pick"
    /\ ralph.queue = {}
    /\ ralph' = [RalphIdle EXCEPT !.phase = RalphNextPhase(ralph.phase),
                                  !.queue = Glob(fs, RalphNextPhase(ralph.phase)),
                                  !.started = IF ralph.phase = APPROVAL THEN now
                                              ELSE ralph.started]
    /\ UNCHANGED <<fs, retryLog, successPatterns, failurePatterns, tp,
                   humanApproved, pending, now, ledger, others>>

\* run_autonomous_cycle, the head of each loop body: get_task_metadata and
\* the test that decides whether the task is handled at all.
RalphSelected(ph, m) ==
    IF ~m.frontmatter THEN ph # APPROVAL
    ELSE IF ph = INCOMING THEN m.status \in {"pending_review", "needs_action"}
    ELSE IF ph = IN_PROGRESS THEN m.status = "in_progress"
    ELSE m.approved

RalphPick ==
    /\ ralph.pc = "pick"
    /\ \E n \in ralph.queue :
         LET present == Exists(fs, ralph.phase, n)
             \* a file that is gone reads as {}: the status defaults select it
             \* in the first two loops, approved defaults to False in the third
             sel == IF present THEN RalphSelected(ralph.phase, fs[ralph.phase][n])
                    ELSE ralph.phase # APPROVAL
         IN ralph' = [ralph EXCEPT
                        !.queue = @ \ {n},
                        !.pc = IF sel THEN "act" ELSE "pick",
                        !.task = IF sel THEN n ELSE NoTask,
                        !.orig = IF sel /\ ralph.phase = APPROVAL
                                 THEN fs[ralph.phase][n].original_status ELSE NoField]
    /\ UNCHANGED <<fs, retryLog, successPatterns, failurePatterns, tp,
                   humanApproved, pending, now, ledger, others>>

\* The first half of update_task_metadata(path, {'status': st}) that follows
\* a move: the file at the path is read (a missing file ends the update).
RalphBeginUpdate(F, b, st) ==
    IF Exists(F, b, ralph.task) /\ F[b][ralph.task].frontmatter
    THEN [ralph EXCEPT !.pc = "write", !.wb = b, !.wst = st, !.snap = F[b][ralph.task]]
    ELSE [ralph EXCEPT !.pc = "pick", !.task = NoTask, !.orig = NoField]

RalphDone == [ralph EXCEPT !.pc = "pick", !.task = NoTask, !.orig = NoField]

\* run_autonomous_cycle, the body of the incoming and in-progress loops:
\* process_task, then the move its result asks for.
RalphProcess ==
    /\ ralph.pc = "act"
    /\ ralph.phase \in {INCOMING, IN_PROGRESS}
    /\ LET n == ralph.task
           r == process_task(fs, ralph.phase, n)
       IN IF r.ret = "completed"
          THEN /\ fs' = MoveFile(r.fs, ralph.phase, n, COMPLETED)
               /\ ralph' = RalphBeginUpdate(fs', COMPLETED, "completed")
          ELSE IF r.ret = "in_progress" /\ ralph.phase = INCOMING
          THEN /\ fs' = MoveFile(r.fs, INCOMING, n, IN_PROGRESS)
               /\ ralph' = RalphBeginUpdate(fs', IN_PROGRESS, "in_progress")
          ELSE IF ralph.phase = INCOMING /\ r.ret \notin {"awaiting_approval", "failed"}
          THEN /\ fs' = r.fs
               /\ ralph' = RalphBeginUpdate(fs', INCOMING, r.ret)
          ELSE IF r.ret = "pending_review" /\ ralph.phase = IN_PROGRESS
          THEN /\ fs' = MoveFile(r.fs, IN_PROGRESS, n, INCOMING)
               /\ ralph' = RalphBeginUpdate(fs', INCOMING, "pending_review")
          ELSE IF r.ret = "awaiting_approval" /\ ralph.phase = IN_PROGRESS
          THEN /\ fs' = MoveFile(r.fs, IN_PROGRESS, n, APPROVAL)
               /\ ralph' = RalphDone
          ELSE /\ fs' = r.fs
               /\ ralph' = RalphDone
    /\ UNCHANGED <<retryLog, successPatterns, failurePatterns, tp,
                   humanApproved, pending, now, ledger, others>>

\* Where the approval loop sends an approved task.
ReleaseTarget(orig) == IF orig = "completed" THEN COMPLETED ELSE IN_PROGRESS

\* run_autonomous_cycle, the body of the approval loop for an approved task.
RalphRelease ==
    /\ ralph.pc = "act"
    /\ ralph.phase = APPROVAL
    /\ LET dest == ReleaseTarget(ralph.orig)
       IN /\ fs' = MoveFile(fs, APPROVAL, ralph.task, dest)
          /\ ralph' = RalphBeginUpdate(fs', dest,
                         IF dest = COMPLETED THEN "completed" ELSE "in_progress")
    /\ UNCHANGED <<retryLog, successPatterns, failurePatterns, tp,
                   humanApproved, pending, now, ledger, others>>

\* The second half of update_task_metadata: the metadata read earlier, with
\* the new status, is written to the path (open(path, 'w') creates the file
\* when it has been moved away meanwhile).
RalphWrite ==
    /\ ralph.pc = "write"
    /\ MayWrite(fs, ralph.wb, ralph.task)
    /\ fs' = [fs EXCEPT ![ralph.wb][ralph.task] = [ralph.snap EXCEPT !.status = ralph.wst]]
    /\ ralph' = [ralph EXCEPT !.pc = "pick", !.task = NoTask, !.orig = NoField,
                              !.wb = INCOMING, !.wst = "", !.snap = NoFile]
    /\ UNCHANGED <<retryLog, successPatterns, failurePatterns, tp,
                   humanApproved, pending, now, ledger, others>>

\* RalphLoop.log_retry_attempt: one more entry naming the file.
log_retry_attempt(n) ==
    /\ retryLog[n] < MaxRetryLog
    /\ retryLog' = [retryLog EXCEPT ![n] = @ + 1]
    /\ UNCHANGED <<fs, successPatterns, failurePatterns, ralph, tp,
                   humanApproved, pending, now, ledger, others>>

\* -------------------------------------------------------- task_processor
TPIdle == [phase |-> INCOMING, queue |-> {}, pc |-> "pick", task |-> NoTask,
           dest |-> "none", snap |-> NoFile]

\* The order in which task_processor.main calls the four process_* functions.
TPNextPhase(ph) ==
    IF ph = INCOMING THEN IN_PROGRESS ELSE IF ph = IN_PROGRESS THEN APPROVAL ELSE COMPLETED

\* get_task_status ('error' for a file that is gone)
get_task_status(F, b, n) ==
    IF ~Exists(F, b, n) THEN "error"
    ELSE IF F[b][n].frontmatter THEN F[b][n].status ELSE "unknown"

\* get_task_approval_status (False for a file that is gone)
get_task_approval_status(F, b, n) == IF Exists(F, b, n) THEN F[b][n].approval ELSE FALSE

\* The chains with a first branch that looks at the status instead of the
\* approval flag.
TPTargetByStatus(ph, status, requires_approval, approved) ==
    IF ph = INCOMING
    THEN (IF requires_approval \/ status = "pending_review" THEN APPROVAL
          ELSE IF status = "in_progress" THEN IN_PROGRESS
          ELSE IF status = "completed" THEN COMPLETED
          ELSE "none")
    ELSE IF ph = IN_PROGRESS
    THEN (IF requires_approval THEN APPROVAL
          ELSE IF status = "completed" THEN COMPLETED
          ELSE IF status = "pending_review" THEN INCOMING
          ELSE "none")
    ELSE (IF approved THEN IN_PROGRESS ELSE "none")

\* The if/elif chains of process_incoming_tasks and process_in_progress_tasks
\* and the approved test of process_approval_workflows: the bucket the file
\* is moved to, "none" when it is left where it is.
TPTarget(ph, status, requires_approval, approved) ==
    IF ph = INCOMING
    THEN (IF requires_approval THEN APPROVAL
          ELSE IF status = "in_progress" THEN IN_PROGRESS
          ELSE IF status = "completed" THEN COMPLETED
          ELSE "none")
    ELSE IF ph = IN_PROGRESS
    THEN (IF requires_approval THEN APPROVAL
          ELSE IF status = "completed" THEN COMPLETED
          ELSE IF status = "pending_review" THEN INCOMING
          ELSE "none")
    ELSE (IF approved THEN IN_PROGRESS ELSE "none")

\* The "task_files = list(<bucket>.glob('*.md'))" line of the next process_*
\* function, once the loop of the current one is over.
TPList ==
    /\ tp.pc = "pick"
    /\ tp.queue = {}
    /\ tp.phase # COMPLETED
    /\ tp' = [TPIdle EXCEPT !.phase = TPNextPhase(tp.phase),
                            !.queue = IF TPNextPhase(tp.phase) = COMPLETED THEN {}
                                      ELSE Glob(fs, TPNextPhase(tp.phase))]
    /\ UNCHANGED <<fs, retryLog, successPatterns, failurePatterns, ralph,
                   humanApproved, pending, now, ledger, others>>

\* process_completed_tasks: lists the completed bucket and passes over every
\* file; the next cycle then lists the incoming bucket.
process_completed_tasks ==
    /\ tp.pc = "pick"
    /\ tp.phase = COMPLETED
    /\ tp' = [TPIdle EXCEPT !.queue = Glob(fs, INCOMING)]
    /\ UNCHANGED <<fs, retryLog, successPatterns, failurePatterns, ralph,
                   humanApproved, pending, now, ledger, others>>

\* The head of a loop body: the reads of the file and the branch taken.
TPPick ==
    /\ tp.pc = "pick"
    /\ \E n \in tp.queue :
         LET d == TPTarget(tp.phase, get_task_status(fs, tp.phase, n),
                           get_task_approval_status(fs, tp.phase, n),
                           Exists(fs, tp.phase, n) /\ fs[tp.phase][n].approved)
         IN tp' = [tp EXCEPT !.queue = @ \ {n},
                             !.pc = IF d = "none" THEN "pick" ELSE "act",
                             !.task = IF d = "none" THEN NoTask ELSE n,
                             !.dest = d]
    /\ UNCHANGED <<fs, retryLog, successPatterns, failurePatterns, ralph,
                   humanApproved, pending, now, ledger, others>>

\* process_incoming_tasks / process_in_progress_tasks: the move of the branch.
TPMove ==
    /\ tp.pc = "act"
    /\ tp.phase \in {INCOMING, IN_PROGRESS}
    /\ fs' = MoveFile(fs, tp.phase, tp.task, tp.dest)
    /\ tp' = [tp EXCEPT !.pc = "pick", !.task = NoTask, !.dest = "none"]
    /\ UNCHANGED <<retryLog, successPatterns, failurePatterns, ralph,
                   humanApproved, pending, now, ledger, others>>

\* process_approval_workflows for an approved task: the move to the
\* in-progress bucket and the read that opens update_task_status.
TPRelease ==
    /\ tp.pc = "act"
    /\ tp.phase = APPROVAL
    /\ fs' = MoveFile(fs, APPROVAL, tp.task, IN_PROGRESS)
    /\ tp' = IF Exists(fs', IN_PROGRESS, tp.task) /\ fs'[IN_PROGRESS][tp.task].frontmatter
             THEN [tp EXCEPT !.pc = "write", !.dest = "none",
                             !.snap = fs'[IN_PROGRESS][tp.task]]
             ELSE [tp EXCEPT !.pc = "pick", !.task = NoTask, !.dest = "none"]
    /\ UNCHANGED <<retryLog, successPatterns, failurePatterns, ralph,
                   humanApproved, pending, now, ledger, others>>

\* task_processor.update_task_status, the write of the metadata read before.
TPWrite ==
    /\ tp.pc = "write"
    /\ MayWrite(fs, IN_PROGRESS, tp.task)
    /\ fs' = [fs EXCEPT ![IN_PROGRESS][tp.task] = [tp.snap EXCEPT !.status = "in_progress"]]
    /\ tp' = [tp EXCEPT !.pc = "pick", !.task = NoTask, !.snap = NoFile]
    /\ UNCHANGED <<retryLog, successPatterns, failurePatterns, ralph,
                   humanApproved, pending, now, ledger, others>>

\* Calls of log_retry_attempt for one file that follow each other with no
\* other step in between, until the file has failure_threshold or max_retries
\* entries.
RetryMarks == {failure_threshold, max_retries}
LogRetryBurst(n) ==
    /\ \E k \in RetryMarks :
         /\ retryLog[n] < k
         /\ retryLog' = [retryLog EXCEPT ![n] = k]
    /\ UNCHANGED <<fs, successPatterns, failurePatterns, ralph, tp,
                   humanApproved, pending, now, ledger, others>>

\* ----------------------------------------------------- SelfCorrectionMode
\* identify_failing_tasks
identify_failing_tasks == {n \in AllNames : retryLog[n] >= failure_threshold}

\* The search of adjust_processing_strategy and move_persistent_failures:
\* the incoming bucket first, then the in-progress bucket.
SCFind(F, n) ==
    IF Exists(F, INCOMING, n) THEN INCOMING
    ELSE IF Exists(F, IN_PROGRESS, n) THEN IN_PROGRESS ELSE "none"

\* adjust_processing_strategy over a set of failing files.
adjust_processing_strategy(F, S) ==
    [b \in Buckets |-> [n \in AllNames |->
        IF n \in S /\ SCFind(F, n) = b /\ F[b][n].frontmatter
        THEN [F[b][n] EXCEPT !.priority = "low", !.requires_manual_review = TRUE]
        ELSE F[b][n]]]

\* move_persistent_failures over a set of files: task_path.rename(failed/n).
move_persistent_failures(F, S) ==
    [b \in Buckets |-> [n \in AllNames |->
        IF n \in S /\ SCFind(F, n) # "none"
        THEN (IF b = FAILED THEN F[SCFind(F, n)][n]
              ELSE IF b = SCFind(F, n) THEN NoFile ELSE F[b][n])
        ELSE F[b][n]]]

\* run_self_correction_cycle.  rename onto an existing failed/n replaces it
\* on POSIX and raises on Windows, which ends the cycle: either every failing
\* file is moved, or the files without a namesake in the failed bucket that
\* came before the raise are.
run_self_correction_cycle ==
    /\ identify_failing_tasks # {}
    /\ LET S == identify_failing_tasks
           F1 == adjust_processing_strategy(fs, S)
           clash == {n \in S : SCFind(F1, n) # "none" /\ Exists(F1, FAILED, n)}
       IN \/ fs' = move_persistent_failures(F1, S)
          \/ /\ clash # {}
             /\ \E M \in SUBSET (S \ clash) : fs' = move_persistent_failures(F1, M)
    /\ UNCHANGED <<retryLog, successPatterns, failurePatterns, ralph, tp,
                   humanApproved, pending, now, ledger, others>>

\* ------------------------------------------------------ TaskIntelligence
Max(a, b) == IF a > b THEN a ELSE b

\* analyze_completed_tasks: the number of completed tasks of a type.
TypeFrequency(F, ty) ==
    Cardinality({n \in AllNames :
        Exists(F, COMPLETED, n) /\ F[COMPLETED][n].frontmatter /\ F[COMPLETED][n].type = ty})

\* calculate_confidence_score, in hundredths.
calculate_confidence_score(F, m) ==
    LET bonus == Min(TypeFrequency(F, m.type) * 5, 20)
        adj == IF m.priority = "high" THEN 10
               ELSE IF m.priority = "critical" THEN 20
               ELSE IF m.priority = "low" THEN 0 - 10 ELSE 0
    IN Max(0, Min(100, 70 + bonus + adj))

\* calculate_urgency, in hundredths; keyword says whether the subject or the
\* content preview holds one of the urgent keywords.
calculate_urgency(m, keyword) ==
    LET base == IF m.priority = "critical" THEN 90
                ELSE IF m.priority = "high" THEN 70
                ELSE IF m.priority = "low" THEN 30 ELSE 50
    IN IF keyword THEN Min(100, base + 20) ELSE base

\* analyze_retries: the entries of today's retry log that name the file.
\* The log files are one per day: either the entries are all of today, or
\* they are all of earlier days and today's log has none.
analyze_retries(n, today) == IF today THEN retryLog[n] ELSE 0

\* prioritize_task: the metadata it writes.
prioritize_task(F, m, n, keyword, today) ==
    LET urgency == calculate_urgency(m, keyword)
    IN [m EXCEPT
          !.confidence_score = calculate_confidence_score(F, m),
          !.retry_count = analyze_retries(n, today),
          !.priority = IF urgency > 80 /\ m.priority # "critical" THEN "critical"
                       ELSE IF urgency > 60 /\ m.priority \notin {"critical", "high"}
                       THEN "high" ELSE @]

\* run_intelligence_cycle: prioritize_task over the incoming bucket, then
\* over the in-progress bucket.
run_intelligence_cycle ==
    /\ Glob(fs, INCOMING) \cup Glob(fs, IN_PROGRESS) # {}
    /\ \E keyword \in BOOLEAN, today \in BOOLEAN :
          fs' = [b \in Buckets |-> [n \in AllNames |->
                   IF b \in {INCOMING, IN_PROGRESS} /\ Exists(fs, b, n) /\ fs[b][n].frontmatter
                   THEN prioritize_task(fs, fs[b][n], n, keyword, today)
                   ELSE fs[b][n]]]
    /\ UNCHANGED <<retryLog, successPatterns, failurePatterns, ralph, tp,
                   humanApproved, pending, now, ledger, others>>

\* ------------------------------------------------- operator and approver
\* update_task_status.py main: every file of the in-progress bucket gets
\* status completed.
update_task_status_main ==
    /\ Glob(fs, IN_PROGRESS) # {}
    /\ fs' = [fs EXCEPT ![IN_PROGRESS] =
                [n \in AllNames |-> IF Exists(fs, IN_PROGRESS, n) /\ fs[IN_PROGRESS][n].frontmatter
                                    THEN [fs[IN_PROGRESS][n] EXCEPT !.status = "completed"]
                                    ELSE fs[IN_PROGRESS][n]]]
    /\ UNCHANGED <<retryLog, successPatterns, failurePatterns, ralph, tp,
                   humanApproved, pending, now, ledger, others>>

\* The human approver sets "approved: true" in the frontmatter of a task
\* file that waits in the approval bucket.
HumanBuckets == {APPROVAL}
HumanApprove ==
    /\ \E b \in HumanBuckets, n \in AllNames :
         /\ Exists(fs, b, n)
         /\ fs[b][n].frontmatter
         /\ ~fs[b][n].approved
         /\ fs' = [fs EXCEPT ![b][n].approved = TRUE]
         /\ humanApproved' = [humanApproved EXCEPT ![Base(n)] = TRUE]
    /\ UNCHANGED <<retryLog, successPatterns, failurePatterns, ralph, tp,
                   pending, now, ledger, others>>

\* ------------------------------------------------------ create_approval
MaxRequests == 1
Requests == 1..MaxRequests

\* create_approval_request: a new file in 04_Approval_Workflows/Pending with
\* status pending that expires 24 hours after its creation.  The model
\* follows the requests whose expiry the clock can pass.
WriteRequest ==
    \E r \in Requests :
         /\ pending[r] = NoFile
         /\ now + ApprovalTTL < MaxClock
         /\ pending' = [pending EXCEPT ![r] =
                          [exists |-> TRUE, type |-> "approval_request",
                           status |-> "pending", created |-> now,
                           expires |-> now + ApprovalTTL, approved |-> FALSE]]

create_approval_request ==
    /\ WriteRequest
    /\ UNCHANGED <<fs, retryLog, successPatterns, failurePatterns, ralph, tp,
                   humanApproved, now, ledger, others>>

\* The choices of --type with the options main reads for each.
Options == [email_draft |-> {"to", "subject", "body"},
            payment |-> {"amount", "recipient", "description"},
            social_post |-> {"platform", "content", "hashtags"}]

NoRun == [type |-> "", given |-> {}, exit |-> 0 - 1]

ValidatedAlways(type, given) == TRUE

\* main, "Validate required fields based on type"; given holds the options
\* passed with a non-empty value.
Validated(type, given) ==
    IF type = "email_draft" THEN "to" \in given /\ "subject" \in given
    ELSE IF type = "payment" THEN "amount" \in given /\ "recipient" \in given
    ELSE "platform" \in given /\ "content" \in given

\* main of create_approval.py: sys.exit(1) when the validation fails,
\* create_approval_request and exit status 0 otherwise.
create_approval_main ==
    /\ \E type \in DOMAIN Options : \E given \in SUBSET Options[type] :
          IF Validated(type, given)
          THEN /\ WriteRequest
               /\ lastRun' = [type |-> type, given |-> given, exit |-> 0]
          ELSE /\ lastRun' = [type |-> type, given |-> given, exit |-> 1]
               /\ UNCHANGED pending
    /\ UNCHANGED <<fs, retryLog, successPatterns, failurePatterns, ralph, tp,
                   humanApproved, now, ledger, ledgerVars, trustVars, supVars,
                   watcher, hook, auditVars, companyVars, fwVars, actionVars>>

\* The human approver sets "approved: true" in the frontmatter of a request
\* in 04_Approval_Workflows/Pending.
HumanApproveRequest ==
    /\ \E r \in Requests :
         /\ pending[r] # NoFile
         /\ ~pending[r].approved
         /\ pending' = [pending EXCEPT ![r].approved = TRUE]
    /\ UNCHANGED <<fs, retryLog, successPatterns, failurePatterns, ralph, tp,
                   humanApproved, now, ledger, others>>

\* The clock advances by one hour.
Tick ==
    /\ now < MaxClock
    /\ now' = now + 1
    /\ UNCHANGED <<fs, retryLog, successPatterns, failurePatterns, ralph, tp,
                   humanApproved, pending, ledger, others>>

\* ----------------------------------------------------- write_action_file
\* Two watcher processes that write the same base filename.  Path 0 is
\* Needs_Action/<filename>.md and path k is <filename>_k.md; a file holds
\* the call that wrote it, <<>> is no file.
WatcherProcesses == {"w1", "w2"}
ActionPaths == 0..(2 * MaxCalls)

ActionIdle ==
    /\ needs_action = [p \in ActionPaths |-> <<>>]
    /\ writers = [w \in WatcherProcesses |->
                    [pc |-> "idle", filepath |-> 0, counter |-> 1, calls |-> 0]]

\* write_action_file: filepath = needs_action / f"{filename}.md"; counter = 1.
write_action_file(w) ==
    /\ writers[w].pc = "idle"
    /\ writers[w].calls < MaxCalls
    /\ writers' = [writers EXCEPT ![w] = [pc |-> "exists", filepath |-> 0,
                                          counter |-> 1, calls |-> @.calls + 1]]
    /\ UNCHANGED <<notAction, needs_action>>

\* One test of "while filepath.exists()" with the body of the loop.
filepath_exists(w) ==
    /\ writers[w].pc = "exists"
    /\ IF needs_action[writers[w].filepath] # <<>>
       THEN writers' = [writers EXCEPT ![w].filepath = writers[w].counter,
                                       ![w].counter = @ + 1]
       ELSE writers' = [writers EXCEPT ![w].pc = "write"]
    /\ UNCHANGED <<notAction, needs_action>>

\* filepath.write_text(content): creates the file or truncates the one
\* that is there.
write_text(w) ==
    /\ writers[w].pc = "write"
    /\ needs_action' = [needs_action EXCEPT ![writers[w].filepath] =
                                               <<w, writers[w].calls>>]
    /\ writers' = [writers EXCEPT ![w].pc = "idle"]
    /\ UNCHANGED notAction

\* ---------------------------------------------------------- file_watcher
\* Paths in Inbox; a file is known by the order of its arrival, 0 is no
\* file.
InboxNames == {"report.pdf", "notes.txt"}
Files == 1..MaxFiles

\* tasks counts the task files in 01_Incoming_Tasks written for a file;
\* marked holds the files whose path was added to processed_files.
FwIdle == [inbox |-> [p \in InboxNames |-> 0],
           tasks |-> [f \in Files |-> 0],
           archived |-> {}, marked |-> {},
           processed_files |-> {}, arrivals |-> 0, runs |-> 0]

\* Somebody drops a file into Inbox.
FileArrives(p) ==
    /\ fw.inbox[p] = 0
    /\ fw.arrivals < MaxFiles
    /\ fw' = [fw EXCEPT !.inbox[p] = fw.arrivals + 1, !.arrivals = @ + 1]
    /\ UNCHANGED notFw

\* main of file_watcher.py, started by hand or again by the supervisor:
\* processed_files = set().
file_watcher_main ==
    /\ fw.runs < MaxWatcherRuns
    /\ fw' = [fw EXCEPT !.processed_files = {}, !.runs = @ + 1]
    /\ UNCHANGED notFw

\* create_task_file: one more task file for the file at p, or an
\* exception that is printed and swallowed.
create_task_file(tasks, inbox, created) ==
    [f \in Files |-> IF \E p \in created : inbox[p] = f THEN tasks[f] + 1
                     ELSE tasks[f]]

\* move_to_archive: the file leaves Inbox for 03_Completed_Tasks, or an
\* exception that is printed and swallowed.
move_to_archive(inbox, moved) ==
    [p \in InboxNames |-> IF p \in moved THEN 0 ELSE inbox[p]]

\* check_inbox: for every file of Inbox whose path is not in
\* processed_files, create_task_file, move_to_archive and
\* processed_files.add, whatever the first two did.
check_inbox ==
    /\ fw.runs > 0
    /\ LET new == {p \in InboxNames : fw.inbox[p] # 0 /\ p \notin fw.processed_files}
       IN \E created \in SUBSET new, moved \in SUBSET new :
            fw' = [fw EXCEPT
                     !.tasks = create_task_file(@, fw.inbox, created),
                     !.inbox = move_to_archive(@, moved),
                     !.archived = @ \cup {fw.inbox[p] : p \in moved},
                     !.marked = @ \cup {fw.inbox[p] : p \in new},
                     !.processed_files = @ \cup new]
    /\ UNCHANGED notFw

\* ------------------------------------------------------- Decision Ledger
\* The two classes that write decision_ledger_<date>.md.
LedgerWriters == {"DecisionLedger", "TaskExecutorSkill"}
Days == 1..MaxDays

\* open(ledger_file, 'w') in place of open(ledger_file, 'a').
WriteEntry(file, e) == <<e>>

\* "with open(ledger_file, 'a') as f: f.write(entry)": the entry goes behind
\* whatever the file holds at the time of the write.
AppendEntry(file, e) == Append(file, e)

\* log_decision up to the open: the entry is built and the file name is
\* taken from the date of that moment.
log_decision_begin(w) ==
    /\ writer[w].pc = "idle"
    \* the entries written and about to be written
    /\ Cardinality({p \in Days \X (1..MaxLedger) : p[2] <= Len(ledgerFile[p[1]])})
       + Cardinality({v \in LedgerWriters : writer[v].pc = "open"}) < MaxLedger
    /\ \E t \in {"task_creation", "strategy_change"} :
          writer' = [writer EXCEPT ![w] =
                       [pc |-> "open", day |-> date, entry |-> <<w, t, date>>]]
    /\ UNCHANGED <<notLedger, ledgerFile, date>>

\* log_decision, the append.
log_decision_append(w) ==
    /\ writer[w].pc = "open"
    /\ ledgerFile' = [ledgerFile EXCEPT ![writer[w].day] = AppendEntry(@, writer[w].entry)]
    /\ writer' = [writer EXCEPT ![w] = [pc |-> "idle", day |-> 0, entry |-> <<>>]]
    /\ UNCHANGED <<notLedger, date>>

\* datetime.now() passes midnight.
Midnight ==
    /\ date < MaxDays
    /\ date' = date + 1
    /\ UNCHANGED <<notLedger, ledgerFile, writer>>

LedgerIdle ==
    /\ ledgerFile = [d \in Days |-> <<>>]
    /\ date = 1
    /\ writer = [w \in LedgerWriters |-> [pc |-> "idle", day |-> 0, entry |-> <<>>]]

\* ------------------------------------------- trust scores and autonomy
\* Scores are floats in [0,1] in the source and hundredths here.  A float
\* product is rounded to the nearest representable number, which lies below
\* or above the exact value: in binary64, 0.7 * t + 0.3 * r with
\* t = 0.8999999999999998 and r = 0.9 gives t again.  Here a product or a
\* quotient is the exact value rounded down or up to a hundredth.
Rounded(num, den) == {num \div den, (num + den - 1) \div den}

Departments == {"Sales"}
NoMemory == [exists |-> FALSE]
\* A key that a memory file does not hold.
NoKey == 0 - 1

\* get_autonomy_level of AutonomyLevelManager and of DepartmentAI.
get_autonomy_level(trust_score) ==
    IF trust_score >= 85 THEN 4
    ELSE IF trust_score >= 70 THEN 3
    ELSE IF trust_score >= 50 THEN 2
    ELSE 1

\* TrustScoreSystem.get_autonomy_level, with its four names in the order
\* of the autonomy they grant: full_autonomy 4, reduced_autonomy 3,
\* supervised_operation 2, manual_control_required 1.
TrustScoreSystem_get_autonomy_level(trust_score) ==
    IF trust_score >= 80 THEN 4
    ELSE IF trust_score >= 60 THEN 3
    ELSE IF trust_score >= 40 THEN 2
    ELSE 1

\* .get(key, default) on a loaded memory file.
Get(value, default) == IF value = NoKey THEN default ELSE value

DeptIdle == [pc |-> "idle", trust_score |-> 70, task_count |-> 0, success_count |-> 0,
             saved |-> NoMemory]

\* DepartmentAI.__init__: the defaults, then load_memory.
DepartmentAI_init(d) ==
    /\ dept[d].pc = "idle"
    /\ dept' = [dept EXCEPT ![d] =
          IF memory[d] = NoMemory
          THEN [DeptIdle EXCEPT !.pc = "run", !.saved = dept[d].saved]
          ELSE [pc |-> "run",
                trust_score |-> Get(memory[d].trust_score, 70),
                task_count |-> Get(memory[d].task_count, 0),
                success_count |-> Get(memory[d].success_count, 0),
                saved |-> dept[d].saved]]
    /\ UNCHANGED <<notTrust, tss, memory, alm, autonomyLog>>

\* DepartmentAI.process_task, the counters: the task succeeds or fails.
DepartmentAI_process_task(d) ==
    /\ dept[d].pc = "run"
    /\ dept[d].task_count < MaxDeptTasks
    /\ \E success \in BOOLEAN :
          dept' = [dept EXCEPT ![d].task_count = @ + 1,
                               ![d].success_count = IF success THEN @ + 1 ELSE @]
    /\ UNCHANGED <<notTrust, tss, memory, alm, autonomyLog>>

NewTrustScoresStale(trust_score, success_count, task_count) == {trust_score}

\* update_trust_score, the values 0.7 * trust_score + 0.3 * success_rate may
\* take, kept between 0 and 1.
NewTrustScores(trust_score, success_count, task_count) ==
    IF task_count > 0
    THEN {Max(0, Min(100, a + b)) :
            a \in Rounded(7 * trust_score, 10),
            b \in UNION {Rounded(3 * r, 10) :
                            r \in Rounded(100 * success_count, task_count)}}
    ELSE {trust_score}

\* DepartmentAI.update_trust_score and the save_memory that ends it: the
\* file is written anew from the fields of the object.
update_trust_score(d) ==
    /\ dept[d].pc = "run"
    /\ \E t \in NewTrustScores(dept[d].trust_score, dept[d].success_count, dept[d].task_count) :
          LET data == [exists |-> TRUE, trust_score |-> t,
                       task_count |-> dept[d].task_count,
                       success_count |-> dept[d].success_count,
                       autonomy_level |-> NoKey]
          IN /\ memory' = [memory EXCEPT ![d] = data]
             /\ dept' = [dept EXCEPT ![d] = [DeptIdle EXCEPT !.trust_score = t,
                              !.task_count = dept[d].task_count,
                              !.success_count = dept[d].success_count,
                              !.saved = data]]
    /\ UNCHANGED <<notTrust, tss, alm, autonomyLog>>

\* effective[d] is the level the last autonomy management cycle found for d
\* (no level before the first cycle); saved[d] is the level the manager
\* wrote last.
AlmIdle == [pc |-> "idle", dept |-> "", trust_score |-> 0, current_level |-> 0,
            prev_level |-> 0, data |-> NoMemory,
            effective |-> [d \in Departments |-> NoKey],
            saved |-> [d \in Departments |-> NoKey]]

\* adjust_autonomy_levels: get_current_trust_scores.
get_current_trust_scores(d) ==
    /\ alm.pc = "idle"
    /\ Len(autonomyLog) < MaxAdjustments
    /\ alm' = [alm EXCEPT !.pc = "prev", !.dept = d,
                  !.trust_score = IF memory[d] = NoMemory THEN 50
                                  ELSE Get(memory[d].trust_score, 50)]
    /\ UNCHANGED <<notTrust, tss, memory, dept, autonomyLog>>

\* adjust_autonomy_levels: get_autonomy_level, get_previous_autonomy_level
\* and the comparison.  Without an adjustment the cycle is over for the
\* department and log_autonomy_adjustment writes nothing for it.
get_previous_autonomy_level ==
    /\ alm.pc = "prev"
    /\ LET d == alm.dept
           current == get_autonomy_level(alm.trust_score)
           prev == IF memory[d] = NoMemory THEN 2 ELSE Get(memory[d].autonomy_level, 2)
       IN alm' = IF current # prev
                 THEN [alm EXCEPT !.pc = "save", !.current_level = current,
                                  !.prev_level = prev]
                 ELSE [AlmIdle EXCEPT !.saved = alm.saved,
                          !.effective = [alm.effective EXCEPT ![d] = current]]
    /\ UNCHANGED <<notTrust, tss, memory, dept, autonomyLog>>

\* save_autonomy_level, "Load existing data".
save_autonomy_level_load ==
    /\ alm.pc = "save"
    /\ alm' = [alm EXCEPT !.pc = "write", !.data = memory[alm.dept]]
    /\ UNCHANGED <<notTrust, tss, memory, dept, autonomyLog>>

\* save_autonomy_level, "Save updated data", and the entry that
\* log_autonomy_adjustment writes for the adjustment.
save_autonomy_level_write ==
    /\ alm.pc = "write"
    /\ LET d == alm.dept
           data == IF alm.data = NoMemory
                   THEN [exists |-> TRUE, trust_score |-> NoKey, task_count |-> NoKey,
                         success_count |-> NoKey, autonomy_level |-> alm.current_level]
                   ELSE [alm.data EXCEPT !.autonomy_level = alm.current_level]
       IN /\ memory' = [memory EXCEPT ![d] = data]
          /\ autonomyLog' = Append(autonomyLog,
                 [department |-> d, previous_level |-> alm.prev_level,
                  new_level |-> alm.current_level])
          /\ alm' = [AlmIdle EXCEPT
                       !.saved = [alm.saved EXCEPT ![d] = alm.current_level],
                       !.effective = [alm.effective EXCEPT ![d] = alm.current_level]]
    /\ UNCHANGED <<notTrust, tss, dept>>

\* DepartmentAI.get_autonomy_level.
DepartmentAI_get_autonomy_level(trust_score) ==
    IF trust_score >= 85 THEN 4
    ELSE IF trust_score >= 70 THEN 3
    ELSE IF trust_score >= 50 THEN 2
    ELSE 1

\* TrustScoreSystem: the three rates, from the files counted in
\* 03_Completed_Tasks, 05_Failed_Tasks and 04_Approval_Workflows and from the
\* entries and the distinct tasks of the retry logs.
calculate_task_success_rate(completed, failed) ==
    IF completed + failed = 0 THEN {80}
    ELSE Rounded(100 * completed, completed + failed)

calculate_approval_success_rate(approved, total) ==
    IF total = 0 THEN {100} ELSE Rounded(100 * approved, total)

calculate_retry_frequency(attempts, tasks) ==
    IF tasks = 0 THEN {10}
    ELSE {Min(100, f) : f \in Rounded(100 * attempts, 5 * tasks)}

\* new_trust_score, kept between min_trust_score and max_trust_score.
Weighted(success_rate, approval_rate, retry_frequency) ==
    {Max(0, Min(100, x + y + z)) :
        x \in Rounded(5 * success_rate, 10),
        y \in Rounded(2 * approval_rate, 10),
        z \in Rounded(3 * (100 - retry_frequency), 10)}

\* The values of new_trust_score when total_tasks files are found in
\* 03_Completed_Tasks and 05_Failed_Tasks together, over what the approval
\* folder and the retry logs may hold.
NewTrustScore ==
    [total_tasks \in 0..MaxObserved |->
       UNION {Weighted(s, a, f) :
                s \in UNION {calculate_task_success_rate(completed, total_tasks - completed) :
                               completed \in 0..total_tasks},
                a \in UNION {calculate_approval_success_rate(p[1], p[2]) :
                               p \in {q \in (0..MaxObserved) \X (0..MaxObserved) :
                                        q[1] <= q[2]}},
                f \in UNION {calculate_retry_frequency(p[1], p[2]) :
                               p \in {q \in (0..MaxAttempts) \X (0..MaxObserved) :
                                        IF q[2] = 0 THEN q[1] = 0 ELSE q[1] >= q[2]}}}]

SmoothedAdditive(current, new) ==
    {current + y : y \in Rounded(3 * new, 10)}

\* smoothed_score, with smoothing_factor 0.3.
Smoothed(current, new) ==
    {x + y : x \in Rounded(7 * current, 10), y \in Rounded(3 * new, 10)}

\* TrustScoreSystem(): load_trust_score, then update_trust_score and its
\* save_trust_score.  tss is trust_score.json, with the number of tasks the
\* last update counted.
TrustScoreSystem_update_trust_score ==
    /\ \E total_tasks \in DOMAIN NewTrustScore :
       \E smoothed_score \in UNION {Smoothed(Get(tss.trust_score, 70), new) :
                                      new \in NewTrustScore[total_tasks]} :
          tss' = [trust_score |-> smoothed_score, total_tasks |-> total_tasks]
    /\ UNCHANGED <<notTrust, memory, dept, alm, autonomyLog>>

TrustIdle ==
    /\ tss = [trust_score |-> NoKey, total_tasks |-> NoKey]
    /\ memory = [d \in Departments |-> NoMemory]
    /\ dept = [d \in Departments |-> DeptIdle]
    /\ alm = AlmIdle
    /\ autonomyLog = <<>>

\* ---------------------------------------------------------- supervisor
\* Two of the components of AutonomousAISystem, with their max_restarts.
max_restarts == [ralph_loop |-> 5, dashboard_updater |-> 3]
Components == DOMAIN max_restarts

\* components[c].process is "none" before the first start, "running" while
\* poll() is None and "ended" after; restarts counts the times
\* monitor_components started c again, and intervention is set when it
\* logged "Manual intervention required".
\* sup is the supervisor process: whether main installed signal_handler for
\* SIGINT, its state ("new", "up", "shutdown" while shutdown() runs,
\* "exited"), next, the place in self.components of the component that
\* shutdown() handles next, and whether shutdown() ran to its end.
SupIdle ==
    /\ sup = [handler |-> FALSE, state |-> "new", next |-> 1, shutdownRan |-> FALSE]
    /\ running = FALSE
    /\ components = [c \in Components |->
          [process |-> "none", restart_count |-> 0, restarts |-> 0,
           intervention |-> FALSE]]

\* start_component: Popen starts the script, or raises and the except
\* clause leaves the entry as it was.
start_component(info, started) ==
    IF started THEN [info EXCEPT !.process = "running", !.restart_count = 0]
    ELSE info

\* start_system: running, then start_all_components.
start_system ==
    /\ sup.state = "new"
    /\ ~running
    /\ running' = TRUE
    /\ sup' = [sup EXCEPT !.state = "up"]
    /\ \E started \in [Components -> BOOLEAN] :
          components' = [c \in Components |-> start_component(components[c], started[c])]
    /\ UNCHANGED notSup

\* The process of component c exits.
ComponentExit(c) ==
    /\ components[c].process = "running"
    /\ components' = [components EXCEPT ![c].process = "ended"]
    /\ UNCHANGED <<notSup, running, sup>>

\* monitor_components, the body of the loop for component c.
monitor_components(c) ==
    /\ running
    /\ sup.state # "exited"
    /\ components[c].process = "ended"
    /\ components[c].restarts < MaxStarts
    /\ IF components[c].restart_count < max_restarts[c]
       THEN \E started \in BOOLEAN :
              components' = [components EXCEPT ![c] =
                 start_component([@ EXCEPT !.restart_count = @ + 1,
                                           !.restarts = IF started THEN @ + 1 ELSE @],
                                 started)]
       ELSE components' = [components EXCEPT ![c].intervention = TRUE]
    /\ UNCHANGED <<notSup, running, sup>>

\* main, before start_system: signal.signal(signal.SIGINT, signal_handler).
main_signal ==
    /\ sup.state = "new"
    /\ ~sup.handler
    /\ sup' = [sup EXCEPT !.handler = TRUE]
    /\ UNCHANGED <<notSup, running, components>>

\* The order of self.components.
ShutdownOrder == <<"ralph_loop", "dashboard_updater">>

\* SIGINT reaches the supervisor in the loop of start_system.  With
\* signal_handler installed, sys.exit(0) ends the process: SystemExit is not
\* a KeyboardInterrupt and no except clause takes it; the components, which
\* may have received the signal as well, end or go on running.  Without the
\* handler a KeyboardInterrupt is raised and shutdown() begins.
Sigint ==
    /\ sup.state = "up"
    /\ IF sup.handler
       THEN /\ sup' = [sup EXCEPT !.state = "exited"]
            /\ \E ending \in SUBSET {c \in Components : components[c].process = "running"} :
                  components' = [c \in Components |->
                     IF c \in ending THEN [components[c] EXCEPT !.process = "ended"]
                     ELSE components[c]]
       ELSE /\ sup' = [sup EXCEPT !.state = "shutdown", !.next = 1]
            /\ UNCHANGED components
    /\ UNCHANGED <<notSup, running>>

\* shutdown(), the body of its loop: terminate() and wait(), or kill().
shutdown_terminate ==
    /\ sup.state = "shutdown"
    /\ sup.next <= Len(ShutdownOrder)
    /\ LET c == ShutdownOrder[sup.next]
       IN components' = [components EXCEPT ![c].process =
                           IF @ = "none" THEN @ ELSE "ended"]
    /\ sup' = [sup EXCEPT !.next = @ + 1]
    /\ UNCHANGED <<notSup, running>>

\* shutdown(), after the loop: running = False and sys.exit(0).
shutdown_exit ==
    /\ sup.state = "shutdown"
    /\ sup.next > Len(ShutdownOrder)
    /\ running' = FALSE
    /\ sup' = [sup EXCEPT !.state = "exited", !.shutdownRan = TRUE]
    /\ UNCHANGED <<notSup, components>>

\* ------------------------------------------------------------- watcher
\* backoff is the delay of the last sleep after a failed check cycle, in
\* seconds; files counts the action files written to Needs_Action.
WatcherIdle == [running |-> FALSE, consecutive_errors |-> 0, backoff |-> 0, files |-> 0]

\* BaseWatcher.run, up to the loop.
BaseWatcher_run ==
    /\ ~watcher.running
    /\ watcher' = [watcher EXCEPT !.running = TRUE, !.consecutive_errors = 0,
                                  !.backoff = 0]
    /\ UNCHANGED notWatcher

\* A check cycle without an error in check_for_updates: create_action_file
\* writes a file for the items it does not fail on.
CheckCycle ==
    /\ watcher.running
    /\ \E items \in 0..MaxItems : \E written \in 0..items :
          /\ watcher.files + written <= MaxActionFiles
          /\ watcher' = [watcher EXCEPT !.consecutive_errors = 0,
                                        !.files = @ + written]
    /\ UNCHANGED notWatcher

\* The delay after the consecutive_errors-th failed cycle in a row.
Backoff(consecutive_errors) == Min(60 * consecutive_errors, 600)

\* A check cycle in which check_for_updates raises.
CheckCycleError ==
    /\ watcher.running
    /\ watcher.consecutive_errors < MaxErrors
    /\ watcher' = [watcher EXCEPT !.consecutive_errors = @ + 1,
                                  !.backoff = Backoff(watcher.consecutive_errors + 1)]
    /\ UNCHANGED notWatcher

\* BaseWatcher.stop, from the signal handler.
BaseWatcher_stop ==
    /\ watcher.running
    /\ watcher' = [watcher EXCEPT !.running = FALSE]
    /\ UNCHANGED notWatcher

\* ----------------------------------------------------- Ralph Wiggum hook
MAX_ITERATIONS == 10

\* load_state without a state file: the defaults of the .get calls.
\* reinjected counts the continuation prompts printed since
\* start_ralph_session, sessions the sessions started, and last is what the
\* last run of the hook did.
NoState == [active |-> FALSE, iteration |-> 0, completed |-> FALSE, task_id |-> "",
            stopped_reason |-> "", reinjected |-> 0, sessions |-> 0, last |-> "none",
            early |-> FALSE]

\* What save_state keeps in .claude/ralph_state.json; reinjected, sessions,
\* last and early record what the hook did and are in no file.
StateFile(state) ==
    [active |-> state.active, iteration |-> state.iteration,
     completed |-> state.completed, task_id |-> state.task_id,
     stopped_reason |-> state.stopped_reason]

ActiveAlways(state) == TRUE

\* main, state.get("active", False).
Active(state) == state.active

start_ralph_session(task_id) ==
    /\ hook.sessions < MaxSessions
    /\ hook' = [NoState EXCEPT !.active = TRUE, !.task_id = task_id,
                               !.sessions = hook.sessions + 1]
    /\ UNCHANGED notHook

stop_ralph_session ==
    /\ hook' = [hook EXCEPT !.active = FALSE, !.completed = TRUE]
    /\ UNCHANGED notHook

MaxReachedNever(iteration) == FALSE

\* main, "Check max iterations guard".
MaxReached(iteration) == iteration >= MAX_ITERATIONS

\* main of the Stop hook; complete is the answer of is_task_complete.
\* Without an active session it exits at once (early), with no save_state
\* and nothing printed.
ralph_wiggum_main ==
    /\ \E complete \in BOOLEAN :
          hook' = IF ~Active(hook)
                  THEN [hook EXCEPT !.last = "allow", !.early = TRUE]
                  ELSE IF hook.completed
                  THEN [hook EXCEPT !.active = FALSE, !.last = "allow",
                                    !.early = FALSE]
                  ELSE IF complete
                  THEN [hook EXCEPT !.active = FALSE, !.completed = TRUE,
                                    !.last = "allow", !.early = FALSE]
                  ELSE IF MaxReached(hook.iteration)
                  THEN [hook EXCEPT !.active = FALSE,
                                    !.stopped_reason = "max_iterations_reached",
                                    !.last = "allow", !.early = FALSE]
                  ELSE [hook EXCEPT !.iteration = @ + 1, !.reinjected = @ + 1,
                                    !.last = "continue", !.early = FALSE]
    /\ UNCHANGED notHook

\* ---------------------------------------------------------- audit trail
\* A log in one of the folders lock_all_existing_decision_logs scans, and a
\* log elsewhere that is locked by a call of lock_decision_log.
LogFiles == {"Logs/decision_log.json", "Decision_Ledger/decision_ledger.md"}
InLogLocations(f) == f = "Logs/decision_log.json"

\* logs[f] is the version of the content of f (0: no file), hashStore[f] the
\* hash stored for f (<<>>: none).  audit.violations holds the logs the last
\* check counted, audit.changed the locked logs whose content changed since
\* they were locked and since the last check, audit.checks the checks run,
\* each of which ends with an audit entry that create_audit_entry writes and
\* locks.
AuditIdle ==
    /\ logs = [f \in LogFiles |-> 0]
    /\ hashStore = [f \in LogFiles |-> <<>>]
    /\ audit = [violations |-> {}, changed |-> {}, checks |-> 0]

\* SHA-256 of a content: different contents, different hashes.
calculate_file_hash(content) == <<"sha256", content>>

\* verify_file_integrity against a hash store.
verify_file_integrity(store, f) ==
    logs[f] # 0 /\ calculate_file_hash(logs[f]) = store[f]

\* A writer creates log f or changes its content.
WriteLog(f) ==
    /\ logs[f] < MaxVersions
    /\ logs' = [logs EXCEPT ![f] = @ + 1]
    /\ audit' = [audit EXCEPT !.changed =
                    IF hashStore[f] # <<>> THEN @ \cup {f} ELSE @]
    /\ UNCHANGED <<notAudit, hashStore>>

\* lock_decision_log(f) for an existing log.
lock_decision_log(f) ==
    /\ logs[f] # 0
    /\ hashStore' = [hashStore EXCEPT ![f] = calculate_file_hash(logs[f])]
    /\ audit' = [audit EXCEPT !.changed = @ \ {f}]
    /\ UNCHANGED <<notAudit, logs>>

\* run_audit_integrity_check: lock_all_existing_decision_logs, then
\* verify_all_locked_logs and the count of the violations.
run_audit_integrity_check ==
    /\ audit.checks < MaxChecks
    /\ LET locked == [f \in LogFiles |->
                        IF InLogLocations(f) /\ logs[f] # 0
                        THEN calculate_file_hash(logs[f])
                        ELSE hashStore[f]]
       IN /\ hashStore' = locked
          /\ audit' = [violations |-> {f \in LogFiles :
                                         /\ locked[f] # <<>>
                                         /\ ~verify_file_integrity(locked, f)},
                       changed |-> {},
                       checks |-> audit.checks + 1]
    /\ UNCHANGED <<notAudit, logs>>

\* ------------------------------------------- company-scale orchestrator
\* Two of the components of CompanyScaleOrchestrator with their
\* max_restarts, and the execution components among them.
company_max_restarts == [governance_layer |-> 3, department_ais |-> 3]
CompanyComponents == DOMAIN company_max_restarts
ExecutionComponents == {"department_ais", "executive_council",
                        "cross_dept_conflict_resolver"}

\* safeMode is safe_mode_enabled of the configuration file.  monitor and
\* operations are the positions of monitor_components and of
\* run_company_operations: "check" before is_safe_mode_enabled, "go" after
\* it answered False.  launched holds the execution components started
\* while safe mode was enabled.
CompanyIdle ==
    /\ safeMode = FALSE
    /\ company = [running |-> FALSE,
                  components |-> [c \in CompanyComponents |->
                                    [process |-> "none", restart_count |-> 0]],
                  monitor |-> "check", operations |-> "check", launched |-> {}]

\* The execution components among cs, when they are started now.
LaunchedNow(cs) == IF safeMode THEN cs \cap ExecutionComponents ELSE {}

\* KillSwitchSafeMode.enable_safe_mode and disable_safe_mode.
enable_safe_mode ==
    /\ ~safeMode
    /\ safeMode' = TRUE
    /\ UNCHANGED <<notCompany, company>>

disable_safe_mode ==
    /\ safeMode
    /\ safeMode' = FALSE
    /\ UNCHANGED <<notCompany, company>>

\* CompanyScaleOrchestrator.start_system: governance_layer first, then every
\* other component.
Company_start_system ==
    /\ ~company.running
    /\ \E started \in [CompanyComponents -> BOOLEAN] :
          company' = [company EXCEPT
             !.running = TRUE,
             !.components = [c \in CompanyComponents |->
                               start_component(company.components[c], started[c])],
             !.launched = @ \cup LaunchedNow({c \in CompanyComponents : started[c]})]
    /\ UNCHANGED <<notCompany, safeMode>>

\* The process of component c exits.
Company_ComponentExit(c) ==
    /\ company.components[c].process = "running"
    /\ company' = [company EXCEPT !.components[c].process = "ended"]
    /\ UNCHANGED <<notCompany, safeMode>>

\* monitor_components and run_company_operations, the start of the loop
\* body: is_safe_mode_enabled, and the sleep when it answers True.  It
\* answers False as well when running kill_switch_safe_mode.py raises.
Company_is_safe_mode_enabled(thread) ==
    /\ company.running
    /\ company[thread] = "check"
    /\ \E raised \in BOOLEAN :
          company' = [company EXCEPT ![thread] =
                        IF safeMode /\ ~raised THEN "check" ELSE "go"]
    /\ UNCHANGED <<notCompany, safeMode>>

\* monitor_components, the loop over the components.
Company_monitor_components ==
    /\ company.monitor = "go"
    /\ \E started \in [CompanyComponents -> BOOLEAN] :
          LET restart(c) == /\ company.components[c].process = "ended"
                            /\ company.components[c].restart_count < company_max_restarts[c]
          IN company' = [company EXCEPT
               !.monitor = "check",
               !.components = [c \in CompanyComponents |->
                   IF restart(c)
                   THEN start_component([company.components[c] EXCEPT
                                            !.restart_count = @ + 1], started[c])
                   ELSE company.components[c]],
               !.launched = @ \cup LaunchedNow({c \in CompanyComponents :
                                                   restart(c) /\ started[c]})]
    /\ UNCHANGED <<notCompany, safeMode>>

\* run_company_operations, the scripts of one cycle: department_ais.py,
\* autonomy_level_manager.py and cross_dept_conflict_resolver.py.
run_company_operations ==
    /\ company.operations = "go"
    /\ company' = [company EXCEPT
          !.operations = "check",
          !.launched = @ \cup LaunchedNow({"department_ais", "autonomy_level_manager",
                                            "cross_dept_conflict_resolver"})]
    /\ UNCHANGED <<notCompany, safeMode>>

\* ------------------------------------------------------- specifications
\* The adapters have created the tasks (TaskExecutorSkill.execute_task puts
\* a task that needs approval straight into the approval bucket, every other
\* task is written to the incoming bucket); the Memory folder holds success
\* and failure patterns for some of the task types in use; both workers are
\* about to start a cycle by listing the incoming bucket.
PatternTypes(recs) == {recs[n].type : n \in Tasks}

\* The tasks the lifecycle specifications start from: process_task looks at
\* priority and risk for emails only and at nothing but the approval flag of
\* a task that needs approval, so the other tasks carry the low priority and
\* the tasks that need approval are generic ones.
LifecycleInputs ==
    {r \in TaskRecords :
        /\ r.approval => r.type = "generic"
        /\ ~r.approval => r.original_status = NoField
        /\ r.type # "email" => r.priority = "low"}

InitTasks(Inputs) ==
    \E recs \in [Tasks -> Inputs], place \in [Tasks -> {INCOMING, APPROVAL}] :
       /\ \A n \in Tasks : place[n] = APPROVAL => recs[n].approval
       /\ fs = [b \in Buckets |-> [n \in AllNames |->
                  IF n \in Tasks /\ place[n] = b THEN recs[n] ELSE NoFile]]
       /\ successPatterns \in [Types -> {NoPattern} \cup PatternConfidences]
       /\ failurePatterns \in [Types -> {NoPattern} \cup PatternRetryCounts]
       /\ \A ty \in Types \ PatternTypes(recs) :
             successPatterns[ty] = NoPattern /\ failurePatterns[ty] = NoPattern
       /\ \A ty \in Types \ {"email"} : failurePatterns[ty] = NoPattern
       /\ \A n \in Tasks : recs[n].approval =>
             successPatterns[recs[n].type] = NoPattern

InitRest ==
    /\ retryLog = [n \in AllNames |-> 0]
    /\ ralph = [RalphIdle EXCEPT !.phase = APPROVAL]
    /\ tp = [TPIdle EXCEPT !.phase = COMPLETED]
    /\ humanApproved = [n \in Tasks |-> FALSE]
    /\ pending = [r \in Requests |-> NoFile]
    /\ now = 0
    \* execute_task logs one 'task_creation' decision for the task it creates
    /\ ledger = [n \in Tasks |-> 1]
    /\ LedgerIdle
    /\ TrustIdle
    /\ SupIdle
    /\ watcher = WatcherIdle
    /\ lastRun = NoRun
    /\ hook = NoState
    /\ AuditIdle
    /\ CompanyIdle
    /\ fw = FwIdle
    /\ ActionIdle

Init == InitTasks(LifecycleInputs) /\ InitRest

\* Every combination of type, priority, confidence, approval flag and
\* original_status.
InitRetry == InitTasks(TaskRecords) /\ InitRest

RalphStep == RalphList \/ RalphPick \/ RalphProcess \/ RalphRelease \/ RalphWrite

TPStep == TPList \/ TPPick \/ TPMove \/ TPRelease \/ TPWrite \/ process_completed_tasks

Next ==
    \/ RalphStep
    \/ TPStep
    \/ \E n \in Tasks : LogRetryBurst(n)
    \/ run_self_correction_cycle
    \/ update_task_status_main
    \/ HumanApprove

Spec == Init /\ [][Next]_vars

\* RalphLoop beside the human approver, with the retry log growing one
\* entry at a time.
NextRetry ==
    \/ RalphStep
    \/ HumanApprove
    \/ \E n \in Tasks : log_retry_attempt(n)

SpecRetry == InitRetry /\ [][NextRetry]_vars

\* RalphLoop scheduled fairly beside the human approver.  Nothing in the
\* repository calls log_retry_attempt, so the retry log stays as it is.
NextCycle ==
    \/ RalphStep
    \/ HumanApprove

SpecFair == InitRetry /\ [][NextCycle]_vars /\ WF_vars(RalphStep)

\* RalphLoop, the human approver, the clock and create_approval.py.
NextExpiry ==
    \/ RalphStep
    \/ HumanApprove
    \/ create_approval_request
    \/ Tick

SpecExpiry == Init /\ [][NextExpiry]_vars

\* RalphLoop, the human approver and the retry log, over vaults that may
\* hold task files whose header cannot be parsed.
InitMalformed == InitTasks(TaskRecords \cup {Unparsed}) /\ InitRest

SpecMalformed == InitMalformed /\ [][NextRetry]_vars

\* RalphLoop, the retry log, SelfCorrectionMode and TaskIntelligence.
NextIntelligence ==
    \/ RalphStep
    \/ HumanApprove
    \/ \E n \in Tasks : LogRetryBurst(n)
    \/ run_self_correction_cycle
    \/ run_intelligence_cycle

SpecIntelligence == Init /\ [][NextIntelligence]_vars

\* RalphLoop, task_processor and the human approver over task files that
\* carry any stored status, a value outside the lifecycle included, in the
\* incoming, in-progress or approval bucket.
StoredStatuses == {"pending_review", "needs_action", "in_progress", "completed", "archived"}

InitStatuses ==
    /\ \E r \in LifecycleInputs, st \in StoredStatuses, b \in {INCOMING, IN_PROGRESS, APPROVAL} :
          /\ b = APPROVAL => r.approval
          /\ fs = [c \in Buckets |-> [n \in AllNames |->
                     IF n = 1 /\ c = b THEN [r EXCEPT !.status = st] ELSE NoFile]]
    /\ successPatterns = [ty \in Types |-> NoPattern]
    /\ failurePatterns = [ty \in Types |-> NoPattern]
    /\ InitRest

NextStatuses ==
    \/ RalphStep
    \/ TPStep
    \/ HumanApprove

SpecStatuses == InitStatuses /\ [][NextStatuses]_vars

\* An empty vault with no patterns in Memory: the start of the
\* specifications of the components that do not handle task files.
InitNoTasks ==
    /\ fs = [b \in Buckets |-> [n \in AllNames |-> NoFile]]
    /\ successPatterns = [ty \in Types |-> NoPattern]
    /\ failurePatterns = [ty \in Types |-> NoPattern]
    /\ InitRest

\* DecisionLedger and TaskExecutorSkill logging decisions side by side.
SpecLedger ==
    InitNoTasks /\ [][\/ \E w \in LedgerWriters : log_decision_begin(w)
                      \/ \E w \in LedgerWriters : log_decision_append(w)
                      \/ Midnight]_vars

\* department_ais.py and autonomy_level_manager.py run side by side.
SpecTrust ==
    InitNoTasks /\ [][\/ \E d \in Departments : DepartmentAI_init(d)
                      \/ \E d \in Departments : DepartmentAI_process_task(d)
                      \/ \E d \in Departments : update_trust_score(d)
                      \/ \E d \in Departments : get_current_trust_scores(d)
                      \/ get_previous_autonomy_level
                      \/ save_autonomy_level_load
                      \/ save_autonomy_level_write]_vars

\* trust_score_system.py and department_ais.py, each updating its score.
SpecScores ==
    InitNoTasks /\ [][\/ TrustScoreSystem_update_trust_score
                      \/ \E d \in Departments : DepartmentAI_init(d)
                      \/ \E d \in Departments : DepartmentAI_process_task(d)
                      \/ \E d \in Departments : update_trust_score(d)]_vars

\* The supervisor and the components it starts.
SpecSupervisor ==
    InitNoTasks /\ [][\/ start_system
                      \/ \E c \in Components : ComponentExit(c)
                      \/ \E c \in Components : monitor_components(c)]_vars

\* A watcher in its polling loop.
SpecWatcher ==
    InitNoTasks /\ [][\/ BaseWatcher_run
                      \/ CheckCycle
                      \/ CheckCycleError
                      \/ BaseWatcher_stop]_vars

\* create_approval.py run from the command line, while the clock advances.
SpecApproval ==
    InitNoTasks /\ [][create_approval_main \/ Tick]_vars

\* The Stop hook and the session manager of ralph_wiggum_hook.py.
SpecHook ==
    InitNoTasks /\ [][\/ \E task_id \in {"", "task_1"} : start_ralph_session(task_id)
                      \/ stop_ralph_session
                      \/ ralph_wiggum_main]_vars

\* The audit trail, with the writers of the logs.
SpecAudit ==
    InitNoTasks /\ [][\/ \E f \in LogFiles : WriteLog(f)
                      \/ \E f \in LogFiles : lock_decision_log(f)
                      \/ run_audit_integrity_check]_vars

\* The company-scale orchestrator and the operator of the kill switch.
SpecCompany ==
    InitNoTasks /\ [][\/ enable_safe_mode
                      \/ disable_safe_mode
                      \/ Company_start_system
                      \/ \E c \in CompanyComponents : Company_ComponentExit(c)
                      \/ \E thread \in {"monitor", "operations"} :
                            Company_is_safe_mode_enabled(thread)
                      \/ Company_monitor_components
                      \/ run_company_operations]_vars

\* The supervisor from main or from start_system alone, up to its exit.
SpecShutdown ==
    InitNoTasks /\ [][\/ main_signal
                      \/ start_system
                      \/ \E c \in Components : ComponentExit(c)
                      \/ \E c \in Components : monitor_components(c)
                      \/ Sigint
                      \/ shutdown_terminate
                      \/ shutdown_exit]_vars

\* RalphLoop and task_processor, both scheduled fairly, beside
\* create_approval.py and the human approver of tasks and of requests.
SpecRequests ==
    Init /\ [][\/ RalphStep
               \/ TPStep
               \/ HumanApprove
               \/ create_approval_request
               \/ HumanApproveRequest]_vars
         /\ WF_vars(RalphStep) /\ WF_vars(TPStep)

\* file_watcher.py beside the people who drop files into Inbox.
SpecInbox ==
    InitNoTasks /\ [][\/ \E p \in InboxNames : FileArrives(p)
                      \/ file_watcher_main
                      \/ check_inbox]_vars

\* Two watcher processes in write_action_file.
SpecActionFiles ==
    InitNoTasks /\ [][\E w \in WatcherProcesses :
                        \/ write_action_file(w)
                        \/ filepath_exists(w)
                        \/ write_text(w)]_vars

\* ------------------------------------------------------------------ C1
\* A worker is in the middle of its operation on a task from the read that
\* selects the task to the end of the move and status write.
RalphMidOperation == ralph.pc \in {"act", "write"}
TPMidOperation == tp.pc \in {"act", "write"}

\* C1: RalphLoop.run_autonomous_cycle and the task_processor loop are never
\* both between reading a task and finishing its move/status write for the
\* same task.
C1_OneWorkerPerTask ==
    ~(RalphMidOperation /\ TPMidOperation /\ ralph.task = tp.task)

\* ------------------------------------------------------------------ C2
\* C2: no update is lost: whenever RalphLoop.update_task_metadata or
\* task_processor.update_task_status writes a record back, the file is still
\* there and the record written differs from the record on disk in the status
\* field only, so every change another writer made since the read survives.
C2_NoLostUpdate ==
    [][/\ (ralph.pc = "write" /\ ralph' # ralph) =>
            /\ Exists(fs, ralph.wb, ralph.task)
            /\ fs'[ralph.wb][ralph.task] =
                  [fs[ralph.wb][ralph.task] EXCEPT !.status = ralph.wst]
       /\ (tp.pc = "write" /\ tp' # tp) =>
            /\ Exists(fs, IN_PROGRESS, tp.task)
            /\ fs'[IN_PROGRESS][tp.task] =
                  [fs[IN_PROGRESS][tp.task] EXCEPT !.status = "in_progress"]]_vars

\* ------------------------------------------------------------------ C3
\* C3: every task file has retry_count <= max_retries, and a task file whose
\* retry_count equals max_retries is in the Failed bucket.
C3_RetryCeiling ==
    \A b \in Buckets, n \in AllNames :
       Exists(fs, b, n) =>
          /\ fs[b][n].retry_count <= max_retries
          /\ fs[b][n].retry_count = max_retries => b = FAILED

\* ------------------------------------------------------------------ C4
\* C4: whenever process_task runs on a task whose retry_count (the count of
\* its retry-log entries, as apply_intelligence_to_task has just written it)
\* is max_retries or more, the task is in the Failed bucket afterwards,
\* whatever its confidence, type, priority and approval flag.
C4_ExhaustedGoesToFailed ==
    [][(/\ ralph.pc = "act"
        /\ ralph.phase \in {INCOMING, IN_PROGRESS}
        /\ ralph' # ralph
        /\ Exists(fs, ralph.phase, ralph.task)
        /\ apply_intelligence_to_task(fs[ralph.phase][ralph.task],
                                      ralph.task).retry_count >= max_retries)
       => \E n \in {ralph.task, Stamp(ralph.task)} : Exists(fs', FAILED, n)]_vars

\* ------------------------------------------------------------------ C5
\* C5: every task file in the Completed bucket whose approval flag is true
\* carries approved = true, set by the human approver before the move.
C5_CompletedOnlyIfApproved ==
    \A n \in AllNames :
       (Exists(fs, COMPLETED, n) /\ fs[COMPLETED][n].approval) =>
          fs[COMPLETED][n].approved /\ humanApproved[Base(n)]

\* A task with the approval flag has been approved, released by the approval
\* loop and completed.
C5_Witness ==
    \E n \in AllNames :
       /\ Exists(fs, COMPLETED, n)
       /\ fs[COMPLETED][n].approval
       /\ fs[COMPLETED][n].approved
       /\ fs[COMPLETED][n].status = "completed"

\* ------------------------------------------------------------------ C6
\* Gating moves the file into the approval bucket without touching its
\* status field, so the status a worker reads from the file it releases is
\* the status the task had before it was gated.
\* C6: the status write that ends a release by the approval loop of
\* run_autonomous_cycle or by process_approval_workflows leaves the task with
\* the status it had before it was gated, and with approved = true.
C6_ReleaseRestoresStatus ==
    [][/\ (ralph.pc = "write" /\ ralph.phase = APPROVAL /\ ralph' # ralph) =>
            /\ fs'[ralph.wb][ralph.task].status = ralph.snap.status
            /\ fs'[ralph.wb][ralph.task].approved
       /\ (tp.pc = "write" /\ tp.phase = APPROVAL /\ tp' # tp) =>
            /\ fs'[IN_PROGRESS][tp.task].status = tp.snap.status
            /\ fs'[IN_PROGRESS][tp.task].approved]_vars

\* ------------------------------------------------------------------ C7
\* C7: every task file that appears in the approval bucket carries an
\* original_status field.
C7_GatedCarriesOriginalStatus ==
    [][\A n \in AllNames :
         (~Exists(fs, APPROVAL, n) /\ Exists(fs', APPROVAL, n)) =>
            fs'[APPROVAL][n].original_status # NoField]_vars

\* ------------------------------------------------------------------ C8
\* C8: when a cycle of run_autonomous_cycle that started after the expires
\* time of an approval request ends, the request is no longer pending: it
\* has left the Pending folder or its status is failed.
C8_ExpiredRequestResolved ==
    [][\A r \in Requests :
         (/\ pending[r] # NoFile
          /\ ralph.pc = "pick" /\ ralph.queue = {} /\ ralph.phase = APPROVAL
          /\ ralph' # ralph
          /\ ralph.started > pending[r].expires)
         => (pending'[r] = NoFile \/ pending'[r].status = "failed")]_vars

\* ------------------------------------------------------------------ C9
Terminal == {COMPLETED, FAILED}

\* The status write that ends RalphLoop's move of n into the completed
\* bucket.
CompletingWrite(n) ==
    /\ ralph.pc = "write" /\ ralph.wb = COMPLETED /\ ralph.task = n
    /\ ralph' # ralph
    /\ fs'[COMPLETED][n].status = "completed"

\* C9: a task file in the Completed or Failed bucket stays in that bucket,
\* and its status is not changed again once the move that brought it there
\* has written it.
C9_TerminalStaysTerminal ==
    [][\A b \in Terminal, n \in AllNames :
         Exists(fs, b, n) =>
            /\ Exists(fs', b, n)
            /\ fs'[b][n].status = fs[b][n].status \/ (b = COMPLETED /\ CompletingWrite(n))]_vars

\* ----------------------------------------------------------------- C10
\* Every file of task n is one that process_task evaluates below the
\* completion threshold, with no approval required.
LowConfidence(n) ==
    \A b \in Buckets, f \in AllNames :
       (Exists(fs, b, f) /\ Base(f) = n) =>
          /\ ~fs[b][f].approval
          /\ BusinessRules(apply_intelligence_to_task(fs[b][f], f)) # "completed"

FailedAtCeiling(n) ==
    \E f \in AllNames :
       /\ Base(f) = n
       /\ Exists(fs, FAILED, f)
       /\ fs[FAILED][f].retry_count = max_retries

\* C10: under fair scheduling of run_autonomous_cycle, a task that stays
\* below the completion threshold, with no approval required, eventually is
\* in the Failed bucket with retry_count = max_retries.
C10_LowConfidenceEventuallyFails ==
    \A n \in Tasks : <>(~LowConfidence(n) \/ FailedAtCeiling(n))

\* ----------------------------------------------------------------- C11
\* The incoming loop of run_autonomous_cycle has not reached the file f yet.
NotYetProcessed(f) ==
    \/ ralph.phase = APPROVAL
    \/ /\ ralph.phase = INCOMING
       /\ f \in ralph.queue \/ (ralph.task = f /\ ralph.pc = "act")

\* The file is pending, or completed by the cycle that took it: it sits in
\* the completed bucket and its status says so as soon as the cycle's status
\* write is done.
PendingOrCompleted(b, f) ==
    \/ b = INCOMING /\ NotYetProcessed(f)
    \/ /\ b = COMPLETED
       /\ \/ fs[b][f].status = "completed"
          \/ ralph.pc = "write" /\ ralph.task = f /\ ralph.wb = COMPLETED

\* A task with confidence_score 0.9, no approval required and retry_count
\* below max_retries.
HighConfidence(m) ==
    m.confidence_score = 90 /\ ~m.approval /\ m.retry_count < max_retries

Released(n) == Exists(fs, APPROVAL, n) /\ ~Exists(fs', APPROVAL, n)

\* C12: every task that the approval phase of RalphLoop or of task_processor
\* releases as approved carries the approval-required flag (the flag is never
\* written after creation, so it was set before the task reached the approval
\* bucket); a record that does not require approval is never released.
C12_ReleasedRequiredApproval ==
    [][/\ (RalphRelease /\ Released(ralph.task)) => fs[APPROVAL][ralph.task].approval
       /\ (TPRelease /\ Released(tp.task)) => fs[APPROVAL][tp.task].approval]_vars

\* An approved task that required approval has just been released by the
\* approval loop of RalphLoop.
C12_Witness ==
    /\ ralph.phase = APPROVAL /\ ralph.pc = "write"
    /\ ralph.snap.approval /\ ralph.snap.approved
    /\ ~Exists(fs, APPROVAL, ralph.task)

\* ----------------------------------------------------------------- C13
\* The retries recorded for the file n: the entries of the retry log that
\* name it, or the retry_count of its frontmatter when that is larger.
RecordedRetries(F, b, n) ==
    IF F[b][n].retry_count > retryLog[n] THEN F[b][n].retry_count ELSE retryLog[n]

\* C13: a task is moved to the failed bucket only when its recorded retries
\* have reached max_retries; no component, SelfCorrectionMode included, moves
\* a task there with fewer.
C13_FailedOnlyAtCeiling ==
    [][\A n \in AllNames :
          (~Exists(fs, FAILED, n) /\ Exists(fs', FAILED, n))
          => RecordedRetries(fs', FAILED, n) >= max_retries]_vars

\* ----------------------------------------------------------------- C14
\* C14: when run_autonomous_cycle handles a task file whose header cannot be
\* parsed, it moves the file to the failed bucket; the file is never handled
\* with default field values in place of the unreadable ones.
C14_MalformedGoesToFailed ==
    [][\A n \in AllNames :
          (/\ RalphProcess
           /\ ralph.task = n
           /\ Exists(fs, ralph.phase, n)
           /\ ~fs[ralph.phase][n].frontmatter)
          => /\ ~Exists(fs', ralph.phase, n)
             /\ Exists(fs', FAILED, n) \/ Exists(fs', FAILED, Stamp(n))]_vars

\* ----------------------------------------------------------------- C15
\* run_autonomous_cycle is between two cycles: the approval loop is over.
CycleEnded == ralph.phase = APPROVAL /\ ralph.pc = "pick" /\ ralph.queue = {}

\* The status that goes with a bucket.
BucketStatus(b) ==
    IF b = FAILED THEN "failed"
    ELSE IF b = APPROVAL THEN "awaiting_approval"
    ELSE IF b = COMPLETED THEN "completed"
    ELSE "in_progress"

StatusAgrees(F) ==
    \A b \in {FAILED, APPROVAL, COMPLETED, IN_PROGRESS}, n \in AllNames :
       (Exists(F, b, n) /\ F[b][n].frontmatter) => F[b][n].status = BucketStatus(b)

\* C15: at the end of every run_autonomous_cycle, the status field of each
\* task agrees with the bucket the task is stored in.
C15_StatusAgreesAtCycleEnd ==
    [][(~CycleEnded /\ CycleEnded') => StatusAgrees(fs')]_vars

\* ----------------------------------------------------------------- C16
\* C16: no step of RalphLoop, task_processor or SelfCorrectionMode deletes or
\* overwrites a task record: the number of task files in the vault never
\* decreases.
C16_NoRecordDestroyed ==
    [][NFiles(fs') >= NFiles(fs)]_vars

\* ----------------------------------------------------------------- C17
\* The status values of the lifecycle.
LifecycleStatuses ==
    {"pending_review", "needs_action", "in_progress", "awaiting_approval",
     "completed", "failed"}

\* The status of a file was in the vault before the step.
Carried(st) ==
    \E b \in Buckets, n \in AllNames : Exists(fs, b, n) /\ fs[b][n].status = st

\* C17: whatever bucket, stored status and decision result RalphLoop or
\* task_processor meets, the step leaves each task file in one of the five
\* buckets, and a status it writes is a value of the lifecycle set: every
\* status in the vault after the step is of the set or was there before.
C17_TransitionsTotal ==
    [][\A b \in Buckets, n \in AllNames :
          Exists(fs', b, n) =>
             \/ fs'[b][n].status \in LifecycleStatuses
             \/ Carried(fs'[b][n].status)]_vars

\* The incoming loops of both workers have met a file whose stored status
\* is outside the lifecycle set and have left it where it was.
C17_Witness ==
    /\ ralph.phase = IN_PROGRESS /\ tp.phase = IN_PROGRESS
    /\ \E n \in AllNames :
          Exists(fs, INCOMING, n) /\ fs[INCOMING][n].status = "archived"

\* ----------------------------------------------------------------- C18
\* C18: only a step of RalphLoop changes the retry_count of a task file;
\* the cycles of TaskIntelligence and SelfCorrectionMode leave it as it is.
C18_RetryCountOnlyByRalph ==
    [][\A b \in Buckets, n \in AllNames :
          (/\ Exists(fs, b, n) /\ Exists(fs', b, n)
           /\ fs'[b][n].retry_count # fs[b][n].retry_count)
          => RalphStep]_vars

\* ----------------------------------------------------------------- C19
\* The metadata process_task decides on: the file RalphLoop is handling,
\* after apply_intelligence_to_task.
Decided == apply_intelligence_to_task(fs[ralph.phase][ralph.task], ralph.task)

\* RalphLoop handles a task file that reaches the business rules: it has
\* readable metadata, needs no approval and has retries left.
RulesStep ==
    /\ RalphProcess
    /\ Exists(fs, ralph.phase, ralph.task)
    /\ fs[ralph.phase][ralph.task].frontmatter
    /\ ~RequiresApproval(Decided)
    /\ ~RetriesExhausted(Decided)

\* After the step the task is in the incoming bucket, flagged for manual
\* review.
RoutedToReview ==
    \E n \in {ralph.task, Stamp(ralph.task)} :
       Exists(fs', INCOMING, n) /\ fs'[INCOMING][n].requires_manual_review

C20_OneLedgerEntryPerTransition ==
    [][(RalphStep /\ fs' # fs) =>
         ledger'[Base(ralph.task)] = ledger[Base(ralph.task)] + 1]_vars

\* ----------------------------------------------------------------- C21
\* C21: the Decision Ledger is append-only.  Whatever the interleaving of
\* DecisionLedger.log_decision and TaskExecutorSkill.log_decision, every step
\* leaves each ledger file with the entries it had, unchanged and in their
\* positions, possibly followed by new ones.
C21_LedgerAppendOnly ==
    [][\A d \in Days :
          /\ Len(ledgerFile'[d]) >= Len(ledgerFile[d])
          /\ SubSeq(ledgerFile'[d], 1, Len(ledgerFile[d])) = ledgerFile[d]]_vars

\* One ledger file holds an entry of each writer, the later one written
\* behind the earlier one by a call that had started before it.
C21_Witness ==
    \E d \in Days :
       /\ Len(ledgerFile[d]) >= 2
       /\ ledgerFile[d][1][1] # ledgerFile[d][2][1]


\* ---------------------------------------------------------------- C22
\* The step that ends the autonomy management cycle of department d.
CycleOver(d) ==
    /\ alm.dept = d
    /\ alm.pc \in {"prev", "write"}
    /\ alm'.pc = "idle"

\* C22: when the level derived from the trust score of a department differs
\* from the level in effect at the previous autonomy management cycle, the
\* cycle appends an autonomy_adjustment entry with that previous level and
\* the new one, whatever DepartmentAI wrote to the memory file in between.
C22_AdjustmentLogged ==
    [][\A d \in Departments :
         (/\ CycleOver(d)
          /\ alm.effective[d] # NoKey
          /\ get_autonomy_level(alm.trust_score) # alm.effective[d])
         => /\ Len(autonomyLog') = Len(autonomyLog) + 1
            /\ autonomyLog'[Len(autonomyLog')] =
                 [department |-> d, previous_level |-> alm.effective[d],
                  new_level |-> get_autonomy_level(alm.trust_score)]]_vars

\* ---------------------------------------------------------------- C23
\* C23: once DepartmentAI.save_memory and save_autonomy_level have both
\* written the memory file of a department and neither is at work, the file
\* holds the trust_score, task_count and success_count that save_memory
\* wrote last and the autonomy_level that save_autonomy_level wrote last.
C23_NoLostUpdate ==
    \A d \in Departments :
        (/\ dept[d].pc = "idle"
         /\ alm.pc = "idle"
         /\ dept[d].saved # NoMemory
         /\ alm.saved[d] # NoKey)
        => /\ memory[d].trust_score = dept[d].saved.trust_score
           /\ memory[d].task_count = dept[d].saved.task_count
           /\ memory[d].success_count = dept[d].saved.success_count
           /\ memory[d].autonomy_level = alm.saved[d]

\* ---------------------------------------------------------------- C24
\* The threshold table of the autonomy levels.
ThresholdTable(trust_score) ==
    IF trust_score >= 85 THEN 4
    ELSE IF trust_score >= 70 THEN 3
    ELSE IF trust_score >= 50 THEN 2
    ELSE 1

\* C24: for every trust score a department reaches, the level of
\* AutonomyLevelManager, of DepartmentAI and of TrustScoreSystem is the one
\* of the table: >= 0.85 the fourth, >= 0.70 the third, >= 0.50 the second,
\* the first below.
C24_SameLevelEverywhere ==
    \A d \in Departments :
        LET s == dept[d].trust_score
        IN /\ get_autonomy_level(s) = ThresholdTable(s)
           /\ DepartmentAI_get_autonomy_level(s) = ThresholdTable(s)
           /\ TrustScoreSystem_get_autonomy_level(s) = ThresholdTable(s)

\* ---------------------------------------------------------------- C25
\* C25: the score of TrustScoreSystem and the score of every department
\* stay between 0 and 1 after any number of updates, whatever the counts
\* found, those of no task at all included.
C25_ScoreInRange ==
    /\ tss.trust_score = NoKey \/ tss.trust_score \in 0..100
    /\ \A d \in Departments : dept[d].trust_score \in 0..100

\* Both scores were updated with no task observed, and a score left the
\* default.
C25_Witness ==
    /\ tss.total_tasks = 0
    /\ tss.trust_score \notin {NoKey, 70}
    /\ \E d \in Departments :
          /\ dept[d].saved # NoMemory
          /\ dept[d].saved.task_count = 0

\* ---------------------------------------------------------------- C26
\* DepartmentAI.update_trust_score runs for d with task_count > 0 and a
\* success rate strictly higher than the trust score it starts from.
UpdateWithHigherRate(d) ==
    /\ dept[d].pc = "run"
    /\ dept'[d].pc = "idle"
    /\ dept[d].task_count > 0
    /\ 100 * dept[d].success_count > dept[d].trust_score * dept[d].task_count

C27_RestartsBounded ==
    \A c \in Components : components[c].restarts <= max_restarts[c]

\* ---------------------------------------------------------------- C28
\* C28: in BaseWatcher.run the delay after a failed check cycle that follows
\* a failed one is twice the delay before, up to the ceiling of 600 seconds,
\* which no delay exceeds.
C28_BackoffDoubles ==
    [][CheckCycleError
       => /\ watcher'.backoff <= 600
          /\ (watcher.consecutive_errors >= 1
              => watcher'.backoff = Min(2 * watcher.backoff, 600))]_vars

\* ---------------------------------------------------------------- C29
\* The options the parser announces as required for each --type.
Required == [email_draft |-> {"to", "subject"},
             payment |-> {"amount", "recipient"},
             social_post |-> {"platform", "content"}]

\* C29: a run of main of create_approval.py in which a required option of
\* the chosen type is missing exits with status 1 and leaves the pending
\* approval requests as they were.
C29_MissingFieldCreatesNothing ==
    [][(/\ create_approval_main
        /\ \E f \in Required[lastRun'.type] : f \notin lastRun'.given)
       => /\ lastRun'.exit = 1
          /\ pending' = pending]_vars

\* A run without a required option ended with status 1 after an earlier,
\* complete run had created a request.
C29_Witness ==
    /\ lastRun.exit = 1
    /\ \E f \in Required[lastRun.type] : f \notin lastRun.given
    /\ \E r \in Requests : pending[r] # NoFile

\* ---------------------------------------------------------------- C30
\* C30: in a Ralph Wiggum session the stored iteration counter and the
\* number of continuation prompts printed never exceed MAX_ITERATIONS, and
\* the run of the hook that finds the counter at MAX_ITERATIONS marks the
\* session inactive and allows the stop.
C30_AtMostMaxIterations ==
    /\ [](hook.iteration <= MAX_ITERATIONS /\ hook.reinjected <= MAX_ITERATIONS)
    /\ [][(ralph_wiggum_main /\ hook.iteration = MAX_ITERATIONS)
           => (~hook'.active /\ hook'.last = "allow"
               /\ hook'.reinjected = hook.reinjected)]_vars

\* A session ended by the guard after ten continuation prompts.
C30_Witness ==
    /\ ~hook.active
    /\ hook.stopped_reason = "max_iterations_reached"
    /\ hook.iteration = MAX_ITERATIONS
    /\ hook.reinjected = MAX_ITERATIONS

\* ---------------------------------------------------------------- C31
\* C31: a log whose content changed after lock_decision_log stored its hash
\* is among the integrity violations of the next run_audit_integrity_check.
C31_ChangeCounted ==
    [][run_audit_integrity_check
       => \A f \in audit.changed : f \in audit'.violations]_vars

\* ---------------------------------------------------------------- C32
\* C32: no execution component (department_ais, executive_council,
\* cross_dept_conflict_resolver) is started or restarted while safe mode is
\* enabled, at start_system included.
C32_NoLaunchInSafeMode == company.launched = {}

\* ---------------------------------------------------------------- C33
\* Task n was approved in the approval bucket and released from it to the
\* in-progress bucket.
ReleasedToProgress(n) ==
    /\ Exists(fs, IN_PROGRESS, n)
    /\ fs[IN_PROGRESS][n].frontmatter
    /\ fs[IN_PROGRESS][n].approved

\* C33: a task released from the approval bucket after its approval is never
\* moved back into it, and when RalphLoop keeps running it eventually sits in
\* a terminal bucket.
C33_ReleasedNeverReturns ==
    /\ [][\A n \in AllNames :
            (ReleasedToProgress(n) /\ ~Exists(fs, APPROVAL, n))
            => ~Exists(fs', APPROVAL, n)]_vars
    /\ \A n \in AllNames :
          ReleasedToProgress(n) ~> (\E b \in Terminal : Exists(fs, b, n))

\* ---------------------------------------------------------------- C34
\* C34: once shutdown() has terminated the components and ended, no
\* component process is running.
C34_NoneRunningAfterShutdown ==
    (sup.state = "exited" /\ sup.shutdownRan)
    => \A c \in Components : components[c].process # "running"

\* ---------------------------------------------------------------- C35
\* C35: a supervisor started by main that exits on SIGINT has run
\* shutdown(), and none of the components it started is left running.
C35_SigintRunsShutdown ==
    (sup.state = "exited" /\ sup.handler)
    => /\ sup.shutdownRan
       /\ \A c \in Components : components[c].process # "running"

\* ---------------------------------------------------------------- C36
\* C36: a request written by create_approval_request on which the human
\* has set approved: true eventually leaves the Pending folder.
C36_ApprovedRequestPickedUp ==
    \A r \in Requests :
       (pending[r] # NoFile /\ pending[r].approved) ~> (pending[r] = NoFile)

\* ---------------------------------------------------------------- C37
\* C37: a file that check_inbox has archived or marked processed has
\* exactly one task record in 01_Incoming_Tasks, and no file has two.
C37_ExactlyOneTask ==
    /\ \A f \in fw.archived \cup fw.marked : fw.tasks[f] = 1
    /\ \A f \in Files : fw.tasks[f] <= 1

\* ---------------------------------------------------------------- C38
\* C38: the write of write_action_file never lands on a path that holds a
\* file: every call creates a new file in Needs_Action.
C38_NeverOverwrites ==
    [][\A w \in WatcherProcesses :
         write_text(w) => needs_action[writers[w].filepath] = <<>>]_vars

\* ---------------------------------------------------------------- C39
\* C39: a run of the Stop hook that finds the session inactive allows the
\* stop, prints no continuation prompt and leaves the state file as it is;
\* the session stays inactive until start_ralph_session.
C39_InactiveHookChangesNothing ==
    [][/\ (ralph_wiggum_main /\ ~hook.active)
          => /\ hook'.last = "allow"
             /\ hook'.reinjected = hook.reinjected
             /\ StateFile(hook') = StateFile(hook)
       /\ (~hook.active /\ hook'.active)
          => \E task_id \in {"", "task_1"} : start_ralph_session(task_id)]_vars

C39_Witness ==
    /\ ~hook.active
    /\ hook.early
    /\ hook.stopped_reason = "max_iterations_reached"
    /\ hook.reinjected = MAX_ITERATIONS
====
